---- MODULE Spec2Model ----
(***************************************************************************)
(* Model of fix.py: reconciliation of Cloudflare DNS records with the      *)
(* ingress rules of the account's tunnels.                                 *)
(*                                                                         *)
(* Encoding of values.  A dotted string ("a.example.com", a record         *)
(* content such as "T1.cfargotunnel.com" or "203.0.113.5") is the sequence *)
(* of its dot-separated labels, so str.split("."), ".".join and            *)
(* str.endswith(".cfargotunnel.com") are computed on labels.  Python's     *)
(* None is the number 0 in the id field; provider ids are 1, 2, ...        *)
(* A dict is a function whose DOMAIN is the key set.                       *)
(***************************************************************************)
EXTENDS Integers, Sequences, FiniteSets, TLC

\* ------------------------------------------------------------------ bounds
MaxRules == 2      \* ingress rules over all tunnel configurations
MaxRecords == 2    \* DNS records the provider holds initially

\* ------------------------------------------------------- values of the model
None == 0

ZoneList ==
    << [id |-> "Z1", name |-> <<"example", "com">>],
       [id |-> "Z2", name |-> <<"b", "example", "com">>],
       [id |-> "Z3", name |-> <<"cfargotunnel", "com">>] >>

ZoneIds == {ZoneList[i].id : i \in 1..Len(ZoneList)}

TunnelList == << [id |-> "T1", name |-> "one"], [id |-> "T2", name |-> "two"] >>

TunnelIds == {TunnelList[i].id : i \in 1..Len(TunnelList)}

hA == <<"a", "example", "com">>
hB == <<"a", "b", "example", "com">>
hX == <<"x", "cfargotunnel", "com">>
hU == <<"x", "unknown-domain", "test">>

Hostnames == {hA, hB, hX, hU}

\* An ingress rule of a tunnel configuration; the catch-all rule has no
\* "hostname" key.
NoHostRule == [has_hostname |-> FALSE, hostname |-> <<>>]
IngressRules == {NoHostRule} \cup {[has_hostname |-> TRUE, hostname |-> h] : h \in Hostnames}

\* Names a zone of the provider can hold a record for (the name lies under the zone).
NamesOfZone(z) ==
    CASE z = "Z1" -> {hA, hB}
      [] z = "Z2" -> {hB}
      [] z = "Z3" -> {hX}

TunnelSuffix == <<"cfargotunnel", "com">>

\* Record contents the provider reports initially (type, content, proxiable, proxied, ttl).
Managed(t) == [type |-> "CNAME", content |-> <<t>> \o TunnelSuffix,
               proxiable |-> TRUE, proxied |-> TRUE, ttl |-> 1]
InitialData ==
    { Managed("T1"),
      [Managed("T1") EXCEPT !.ttl = 300],
      [type |-> "A", content |-> <<"203", "0", "113", "5">>,
       proxiable |-> TRUE, proxied |-> FALSE, ttl |-> 300] }

\* What the user may type at the "Proceed? [y/N]" prompt.
Answers == {"y", "n"}

SeqsUpTo(S, n) == UNION {[1..k -> S] : k \in 0..n}

\* ------------------------------------------------------------- dict helpers
EmptyDict == [k \in {} |-> None]

PutKeepFirst(d, k, v) == [x \in DOMAIN d \cup {k} |-> IF x \in DOMAIN d THEN d[x] ELSE v]

Put(d, k, v) == [x \in DOMAIN d \cup {k} |-> IF x = k THEN v ELSE d[x]]

Restrict(d, ks) == [x \in ks |-> d[x]]

\* ------------------------------------------------------------ pure functions
\* Record(id, zone_id, type, content, proxiable, proxied, ttl)
Record(id, zone_id, type, content, proxiable, proxied, ttl) ==
    [id |-> id, zone_id |-> zone_id, type |-> type, content |-> content,
     proxiable |-> proxiable, proxied |-> proxied, ttl |-> ttl]

\* Record.data(): every field but id and zone_id.
Data(r) ==
    [type |-> r.type, content |-> r.content, proxiable |-> r.proxiable,
     proxied |-> r.proxied, ttl |-> r.ttl]

\* s.endswith(".cfargotunnel.com")
EndsWithTunnelSuffix(s) ==
    /\ Len(s) >= Len(TunnelSuffix) + 1
    /\ SubSeq(s, Len(s) - Len(TunnelSuffix) + 1, Len(s)) = TunnelSuffix

\* ".".join(hostname.split(".")[1:])
ApexOfTwoLabels(hostname) == Tail(Tail(hostname))

ApexOf(hostname) == Tail(hostname)

\* zone_name_to_id: the id of the first zone of the listing with that name;
\* found = FALSE stands for the raised ValueError.
RECURSIVE ZoneScan(_, _, _)
ZoneScan(zs, i, zone_name) ==
    IF i > Len(zs) THEN [found |-> FALSE, id |-> ""]
    ELSE IF zs[i].name = zone_name THEN [found |-> TRUE, id |-> zs[i].id]
    ELSE ZoneScan(zs, i + 1, zone_name)

zone_name_to_id_default(zs, zone_name) ==
    IF ZoneScan(zs, 1, zone_name).found THEN ZoneScan(zs, 1, zone_name)
    ELSE [found |-> TRUE, id |-> zs[1].id]

zone_name_to_id(zs, zone_name) == ZoneScan(zs, 1, zone_name)

\* tunnels() and zones() under @cache: the memo (<<>> or <<value>>) answers
\* once it is filled, the provider is asked otherwise.
tunnels(tcache, cft) == IF tcache = <<>> THEN cft ELSE tcache[1]

zonesUncached(zcache, cfz) == cfz

zones(zcache, cfz) == IF zcache = <<>> THEN cfz ELSE zcache[1]

\* zone_name_to_id under @cache: the memo answers for a name it holds, the
\* function body runs for any other name.
CachedZoneIdStale(zid, zs, zone_name) ==
    IF zone_name \in DOMAIN zid THEN [found |-> TRUE, id |-> zs[1].id]
    ELSE zone_name_to_id(zs, zone_name)

CachedZoneId(zid, zs, zone_name) ==
    IF zone_name \in DOMAIN zid THEN [found |-> TRUE, id |-> zid[zone_name]]
    ELSE zone_name_to_id(zs, zone_name)

\* What the two loops of desired() visit, in order: for each tunnel the call
\* of configurations (kind "config"), then its ingress rules (kind "rule").
RECURSIVE TunnelRules(_, _, _)
TunnelRules(tuns, cfg, i) ==
    IF i > Len(tuns) THEN <<>>
    ELSE <<[kind |-> "config", tunnel |-> tuns[i], elem |-> NoHostRule]>>
         \o [j \in 1..Len(cfg[tuns[i].id]) |->
                [kind |-> "rule", tunnel |-> tuns[i], elem |-> cfg[tuns[i].id][j]]]
         \o TunnelRules(tuns, cfg, i + 1)

\* An entry of the log of listing calls and of runs of the body of
\* zone_name_to_id; arg is a sequence of strings.
Read(op, arg) == [op |-> op, arg |-> arg]

\* The loop body of desired(), from step i on.  st.desired is the dict built
\* so far, st.zid the memo of zone_name_to_id, st.zones the memo of zones()
\* (<<>> or <<value>>), st.reads the calls made, st.ok = FALSE once ValueError
\* has been raised.  cfz is the zone listing the provider would return.
RECURSIVE DesiredScan(_, _, _, _)
DesiredScan(rules, cfz, i, st) ==
    IF i > Len(rules) THEN st
    ELSE LET elem == rules[i].elem
             tunnel == rules[i].tunnel
         IN IF rules[i].kind = "config"
            THEN DesiredScan(rules, cfz, i + 1,
                   [st EXCEPT !.reads = Append(@, Read("configurations", <<tunnel.id>>))])
            ELSE IF ~elem.has_hostname THEN DesiredScan(rules, cfz, i + 1, st)
            ELSE LET zone_name == ApexOf(elem.hostname)
                     hit == zone_name \in DOMAIN st.zid
                     zs == zones(st.zones, cfz)
                     res == CachedZoneId(st.zid, zs, zone_name)
                     reads1 == st.reads
                               \o (IF hit THEN <<>> ELSE <<Read("zone_name_to_id", zone_name)>>)
                               \o (IF ~hit /\ st.zones = <<>>
                                   THEN <<Read("zones", <<>>)>> ELSE <<>>)
                     zones1 == IF hit THEN st.zones ELSE <<zs>>
                 IN IF ~res.found
                    THEN [st EXCEPT !.ok = FALSE, !.reads = reads1, !.zones = zones1]
                    ELSE DesiredScan(rules, cfz, i + 1,
                           [desired |-> Put(st.desired, elem.hostname,
                                            Record(None, res.id, "CNAME",
                                                   <<tunnel.id>> \o TunnelSuffix,
                                                   TRUE, TRUE, 1)),
                            zid |-> Put(st.zid, zone_name, res.id),
                            zones |-> zones1,
                            reads |-> reads1,
                            ok |-> TRUE])

\* desired() called with the three memos as they stand and the provider as it
\* stands: the final st of the loops.
DesiredRun(tcache, zcache, zid, cft, cfz, cfg) ==
    LET tuns == tunnels(tcache, cft)
    IN DesiredScan(TunnelRules(tuns, cfg, 1), cfz, 1,
                   [desired |-> EmptyDict, zid |-> zid, zones |-> zcache,
                    reads |-> IF tcache = <<>> THEN <<Read("tunnels", <<>>)>> ELSE <<>>,
                    ok |-> TRUE])

\* The provider's records of the listed zones, in the order current() visits them.
RECURSIVE ZoneRecords(_, _, _)
ZoneRecords(zs, recs, i) ==
    IF i > Len(zs) THEN <<>>
    ELSE (IF zs[i].id \in DOMAIN recs THEN recs[zs[i].id] ELSE <<>>)
         \o ZoneRecords(zs, recs, i + 1)

RECURSIVE CurrentScan(_, _, _)
CurrentScan(listed, i, records) ==
    IF i > Len(listed) THEN records
    ELSE LET record == listed[i]
         IN CurrentScan(listed, i + 1,
                Put(records, record.name,
                    Record(record.id, record.zone_id, record.type, record.content,
                           record.proxiable, record.proxied, record.ttl)))

\* current(): the dict of the provider's records by name, last one wins.
CurrentOf(zs, recs) == CurrentScan(ZoneRecords(zs, recs, 1), 1, EmptyDict)

\* The calls current() makes: zones() unless memoized, then the records of
\* each listed zone.
CurrentReads(zcache, zs) ==
    (IF zcache = <<>> THEN <<Read("zones", <<>>)>> ELSE <<>>)
    \o [i \in 1..Len(zs) |-> Read("dns_records", <<zs[i].id>>)]

\* create(): the records to create.
CreateSetAll(desired, current) == desired

CreateSet(desired, current) == Restrict(desired, DOMAIN desired \ DOMAIN current)

\* delete(): the records to delete.
DeleteSet(desired, current) ==
    Restrict(current, {k \in DOMAIN current \ DOMAIN desired : EndsWithTunnelSuffix(k)})

\* update.truedesire
truedesire(desired_record, current_record) ==
    [desired_record EXCEPT !.id = current_record.id]

\* update(): the records to patch.
UpdateSetContentOnly(desired, current) ==
    LET ks == {k \in DOMAIN desired \cap DOMAIN current :
                 desired[k].content # current[k].content}
    IN [k \in ks |-> truedesire(desired[k], current[k])]

UpdateSetNoSubstitution(desired, current) ==
    LET ks == {k \in DOMAIN desired \cap DOMAIN current : desired[k] # current[k]}
    IN [k \in ks |-> truedesire(desired[k], current[k])]

UpdateSet(desired, current) ==
    LET ks == {k \in DOMAIN desired \cap DOMAIN current :
                 truedesire(desired[k], current[k]) # current[k]}
    IN [k \in ks |-> truedesire(desired[k], current[k])]

\* "if len(records) == 0": the batch is empty.
IsEmptyBatchNever(recs) == FALSE

IsEmptyBatch(recs) == DOMAIN recs = {}

\* "if prompt and input(...) != 'y'": TRUE when the batch goes ahead.
Proceeds(prompt, answer) == ~(prompt /\ answer # "y")

\* ------------------------------------------------------------ the provider
\* cf.zones.dns_records.post(zone_id, data=...): a new record with a fresh id.
DnsPost(recs, zone_id, id, name, data) ==
    [recs EXCEPT ![zone_id] =
        Append(@, [id |-> id, zone_id |-> zone_id, name |-> name, type |-> data.type,
                   content |-> data.content, proxiable |-> data.proxiable,
                   proxied |-> data.proxied, ttl |-> data.ttl])]

\* The provider knows a record with that id in that zone.
DnsHas(recs, zone_id, id) ==
    /\ zone_id \in DOMAIN recs
    /\ \E i \in 1..Len(recs[zone_id]) : recs[zone_id][i].id = id

\* cf.zones.dns_records.patch(zone_id, id, data=...)
DnsPatch(recs, zone_id, id, name, data) ==
    [recs EXCEPT ![zone_id] =
        [i \in 1..Len(@) |->
            IF @[i].id = id
            THEN [id |-> id, zone_id |-> zone_id, name |-> name, type |-> data.type,
                  content |-> data.content, proxiable |-> data.proxiable,
                  proxied |-> data.proxied, ttl |-> data.ttl]
            ELSE @[i]]]

\* cf.zones.dns_records.delete(zone_id, id)
DnsDelete(recs, zone_id, id) ==
    [recs EXCEPT ![zone_id] = SelectSeq(@, LAMBDA r : r.id # id)]

\* ------------------------------------------------------------------- state
VARIABLES
    cf_zones,       \* provider: the zone listing
    cf_tunnels,     \* provider: the listing of the tunnels that are not deleted
    cf_config,      \* provider: tunnel id -> ingress rules of its configuration
    cf_records,     \* provider: zone id -> DNS records of the zone
    cf_next_id,     \* provider: the id the next created record gets
    prompt,         \* process(prompt)
    pc,             \* where process() stands
    tunnels_cache,  \* @cache of tunnels(): <<>> or <<value>>
    zones_cache,    \* @cache of zones(): <<>> or <<value>>
    zid_cache,      \* @cache of zone_name_to_id: zone name -> id
    _desired,       \* process._desired
    _current,       \* process._current
    records,        \* the dict "records" of the running create/update/delete
    todo,           \* keys of records the running loop has not visited yet
    answers,        \* what input() returned for each batch, "unasked" if not called
    calls,          \* the mutation calls issued so far, in order
    reads,          \* the listing calls and zone_name_to_id bodies run so far, in order
    run             \* "first" or "second": which run of the program this is

vars == <<cf_zones, cf_tunnels, cf_config, cf_records, cf_next_id, prompt, pc,
          tunnels_cache, zones_cache, zid_cache, _desired, _current, records, todo,
          answers, calls, reads, run>>

provider == <<cf_zones, cf_tunnels, cf_config, cf_records, cf_next_id>>
caches == <<tunnels_cache, zones_cache, zid_cache>>

\* The records of one zone as the provider reports them: ids first, first + 1, ...
Numbered(zone_id, rs, first) ==
    [i \in 1..Len(rs) |->
        [id |-> first + i - 1, zone_id |-> zone_id, name |-> rs[i].name,
         type |-> rs[i].data.type, content |-> rs[i].data.content,
         proxiable |-> rs[i].data.proxiable, proxied |-> rs[i].data.proxied,
         ttl |-> rs[i].data.ttl]]

Init ==
    /\ cf_zones = ZoneList
    /\ cf_tunnels = TunnelList
    /\ \E n1 \in 0..MaxRules :
         \E c1 \in [1..n1 -> IngressRules], c2 \in SeqsUpTo(IngressRules, MaxRules - n1) :
            cf_config = [t \in TunnelIds |-> IF t = "T1" THEN c1 ELSE c2]
    /\ \E n1 \in 0..MaxRecords :
         \E n2 \in 0..(MaxRecords - n1) :
            \E n3 \in 0..(MaxRecords - n1 - n2) :
               \E r1 \in [1..n1 -> [name : NamesOfZone("Z1"), data : InitialData]],
                  r2 \in [1..n2 -> [name : NamesOfZone("Z2"), data : InitialData]],
                  r3 \in [1..n3 -> [name : NamesOfZone("Z3"), data : InitialData]] :
                  /\ cf_records = [z \in ZoneIds |->
                                     CASE z = "Z1" -> Numbered("Z1", r1, 1)
                                       [] z = "Z2" -> Numbered("Z2", r2, n1 + 1)
                                       [] z = "Z3" -> Numbered("Z3", r3, n1 + n2 + 1)]
                  /\ cf_next_id = n1 + n2 + n3 + 1
    /\ prompt \in BOOLEAN
    /\ pc = "desired"
    /\ tunnels_cache = <<>>
    /\ zones_cache = <<>>
    /\ zid_cache = EmptyDict
    /\ _desired = EmptyDict
    /\ _current = EmptyDict
    /\ records = EmptyDict
    /\ todo = {}
    /\ answers = [create |-> "unasked", update |-> "unasked", delete |-> "unasked"]
    /\ calls = <<>>
    /\ reads = <<>>
    /\ run = "first"

\* ------------------------------------------------------------------ process
\* process(): create, then update, then delete.
NextStageDeleteFirst(stage) ==
    CASE stage = "create" -> "delete"
      [] stage = "delete" -> "update"
      [] stage = "update" -> "done"

NextStage(stage) ==
    CASE stage = "create" -> "update"
      [] stage = "update" -> "delete"
      [] stage = "delete" -> "done"

\* The "return" of a declined prompt in create() and update(): back in
\* process(), which goes on with the next function.
AfterDeclineExit(stage) == "done"

AfterDecline(stage) == NextStage(stage)

\* Where control is after one call of an apply loop: an exception of the call
\* leaves the loop, the function and process(); otherwise the loop goes on with
\* the keys that are left.
AfterCallSwallow(stage, ok, rest) ==
    IF rest = {} THEN NextStage(stage) ELSE stage \o "_apply"

AfterCallReread(stage, ok, rest) ==
    IF ~ok THEN "call_failed"
    ELSE IF rest # {} THEN stage \o "_apply"
    ELSE IF stage = "create" THEN "current" ELSE NextStage(stage)

AfterCall(stage, ok, rest) ==
    IF ~ok THEN "call_failed"
    ELSE IF rest = {} THEN NextStage(stage) ELSE stage \o "_apply"

\* _desired = desired()
Desired ==
    /\ pc = "desired"
    /\ LET st == DesiredRun(tunnels_cache, zones_cache, zid_cache,
                            cf_tunnels, cf_zones, cf_config)
       IN /\ tunnels_cache' = <<tunnels(tunnels_cache, cf_tunnels)>>
          /\ zones_cache' = st.zones
          /\ zid_cache' = st.zid
          /\ reads' = reads \o st.reads
          /\ IF st.ok
             THEN pc' = "current" /\ _desired' = st.desired
             ELSE pc' = "zone_not_found" /\ UNCHANGED _desired
    /\ UNCHANGED <<provider, prompt, _current, records, todo, answers, calls, run>>

\* _current = current()
Current ==
    /\ pc = "current"
    /\ LET zs == zones(zones_cache, cf_zones)
       IN /\ zones_cache' = <<zs>>
          /\ _current' = CurrentOf(zs, cf_records)
          /\ reads' = reads \o CurrentReads(zones_cache, zs)
    /\ pc' = "create"
    /\ UNCHANGED <<provider, prompt, tunnels_cache, zid_cache, _desired, records, todo,
                   answers, calls, run>>

\* A listing call (tunnels, configurations, zones, dns_records.get) raises.
ListFail ==
    /\ pc \in {"desired", "current"}
    /\ pc' = "call_failed"
    /\ UNCHANGED <<provider, prompt, caches, _desired, _current, records, todo, answers,
                   calls, reads, run>>

\* create(): the batch, the empty-batch return and the prompt.
Create ==
    /\ pc = "create"
    /\ LET recs == CreateSet(_desired, _current)
       IN IF IsEmptyBatch(recs)
          THEN /\ pc' = NextStage("create")
               /\ UNCHANGED <<records, todo, answers>>
          ELSE \E answer \in (IF prompt THEN Answers ELSE {"unasked"}) :
                  /\ answers' = [answers EXCEPT !.create = answer]
                  /\ IF Proceeds(prompt, answer)
                     THEN /\ pc' = "create_apply"
                          /\ records' = recs
                          /\ todo' = DOMAIN recs
                     ELSE /\ pc' = AfterDecline("create")
                          /\ UNCHANGED <<records, todo>>
    /\ UNCHANGED <<provider, prompt, caches, _desired, _current, calls, reads, run>>

\* create(): one turn of "for entry, props in records.items()".
CreatePost ==
    /\ pc = "create_apply"
    /\ \E entry \in todo, ok \in BOOLEAN :
          LET props == records[entry]
          IN /\ calls' = Append(calls, [op |-> "post", zone_id |-> props.zone_id,
                                        id |-> None, name |-> entry,
                                        data |-> Data(props), ok |-> ok])
             /\ IF ok
                THEN /\ cf_records' = DnsPost(cf_records, props.zone_id, cf_next_id,
                                              entry, Data(props))
                     /\ cf_next_id' = cf_next_id + 1
                ELSE UNCHANGED <<cf_records, cf_next_id>>
             /\ todo' = todo \ {entry}
             /\ pc' = AfterCall("create", ok, todo \ {entry})
    /\ UNCHANGED <<cf_zones, cf_tunnels, cf_config, prompt, caches, _desired, _current,
                   records, answers, reads, run>>

\* update(): the batch, the empty-batch return and the prompt.
Update ==
    /\ pc = "update"
    /\ LET recs == UpdateSet(_desired, _current)
       IN IF IsEmptyBatch(recs)
          THEN /\ pc' = NextStage("update")
               /\ UNCHANGED <<records, todo, answers>>
          ELSE \E answer \in (IF prompt THEN Answers ELSE {"unasked"}) :
                  /\ answers' = [answers EXCEPT !.update = answer]
                  /\ IF Proceeds(prompt, answer)
                     THEN /\ pc' = "update_apply"
                          /\ records' = recs
                          /\ todo' = DOMAIN recs
                     ELSE /\ pc' = AfterDecline("update")
                          /\ UNCHANGED <<records, todo>>
    /\ UNCHANGED <<provider, prompt, caches, _desired, _current, calls, reads, run>>

\* update(): one turn of "for entry, props in records.items()".  The provider
\* refuses a patch addressed to a record it does not hold in that zone.
UpdatePatch ==
    /\ pc = "update_apply"
    /\ \E entry \in todo, answered \in BOOLEAN :
          LET props == records[entry]
              ok == answered /\ DnsHas(cf_records, props.zone_id, props.id)
          IN /\ calls' = Append(calls, [op |-> "patch", zone_id |-> props.zone_id,
                                        id |-> props.id, name |-> entry,
                                        data |-> Data(props), ok |-> ok])
             /\ cf_records' = IF ok
                              THEN DnsPatch(cf_records, props.zone_id, props.id, entry,
                                            Data(props))
                              ELSE cf_records
             /\ todo' = todo \ {entry}
             /\ pc' = AfterCall("update", ok, todo \ {entry})
    /\ UNCHANGED <<cf_zones, cf_tunnels, cf_config, cf_next_id, prompt, caches, _desired,
                   _current, records, answers, reads, run>>

\* delete(): the batch, the empty-batch return and the prompt.  The branch of
\* a declined prompt only logs: it has no return, so the loop runs either way.
Delete ==
    /\ pc = "delete"
    /\ LET recs == DeleteSet(_desired, _current)
       IN IF IsEmptyBatch(recs)
          THEN /\ pc' = NextStage("delete")
               /\ UNCHANGED <<records, todo, answers>>
          ELSE \E answer \in (IF prompt THEN Answers ELSE {"unasked"}) :
                  /\ answers' = [answers EXCEPT !.delete = answer]
                  /\ pc' = "delete_apply"
                  /\ records' = recs
                  /\ todo' = DOMAIN recs
    /\ UNCHANGED <<provider, prompt, caches, _desired, _current, calls, reads, run>>

\* delete(): one turn of "for entry, props in records.items()".
DeleteCall ==
    /\ pc = "delete_apply"
    /\ \E entry \in todo, answered \in BOOLEAN :
          LET props == records[entry]
              ok == answered /\ DnsHas(cf_records, props.zone_id, props.id)
          IN /\ calls' = Append(calls, [op |-> "delete", zone_id |-> props.zone_id,
                                        id |-> props.id, name |-> entry,
                                        data |-> Data(props), ok |-> ok])
             /\ cf_records' = IF ok
                              THEN DnsDelete(cf_records, props.zone_id, props.id)
                              ELSE cf_records
             /\ todo' = todo \ {entry}
             /\ pc' = AfterCall("delete", ok, todo \ {entry})
    /\ UNCHANGED <<cf_zones, cf_tunnels, cf_config, cf_next_id, prompt, caches, _desired,
                   _current, records, answers, reads, run>>

Next ==
    \/ Desired
    \/ Current
    \/ ListFail
    \/ Create
    \/ CreatePost
    \/ Update
    \/ UpdatePatch
    \/ Delete
    \/ DeleteCall

Spec == Init /\ [][Next]_vars

\* The listings of the provider after a change of the account: the zone
\* b.example.com is gone and the order of the zones differs, tunnel T1 is
\* deleted.
ZoneListLater == <<ZoneList[3], ZoneList[1]>>
TunnelListLater == <<TunnelList[2]>>

\* The account changes at the provider between desired() and current().
ProviderChange ==
    /\ pc = "current"
    /\ cf_zones = ZoneList
    /\ cf_zones' = ZoneListLater
    /\ cf_tunnels' = TunnelListLater
    /\ UNCHANGED <<cf_config, cf_records, cf_next_id, prompt, pc, caches, _desired,
                   _current, records, todo, answers, calls, reads, run>>

\* The runs of process(prompt=False) with the account changing under it; the
\* prompts read and write none of the memos.
InitSnap == Init /\ ~prompt

SnapSpec == InitSnap /\ [][Next \/ ProviderChange]_vars

\* The program is started again after a failed post of create() ended a run:
\* a fresh process (empty memos, no dicts) against the provider as the first
\* run left it, tunnels and zones as before.
Rerun ==
    /\ pc = "call_failed"
    /\ run = "first"
    /\ calls # <<>>
    /\ calls[Len(calls)].op = "post"
    /\ run' = "second"
    /\ pc' = "desired"
    /\ tunnels_cache' = <<>>
    /\ zones_cache' = <<>>
    /\ zid_cache' = EmptyDict
    /\ _desired' = EmptyDict
    /\ _current' = EmptyDict
    /\ records' = EmptyDict
    /\ todo' = {}
    /\ answers' = [create |-> "unasked", update |-> "unasked", delete |-> "unasked"]
    /\ UNCHANGED <<provider, prompt, calls, reads>>

\* The runs of process(prompt=False), each followed by at most one rerun.
RerunSpec == InitSnap /\ [][Next \/ Rerun]_vars

TypeOK ==
    /\ pc \in {"desired", "current", "create", "create_apply", "update", "update_apply",
               "delete", "delete_apply", "done", "zone_not_found", "call_failed"}
    /\ prompt \in BOOLEAN
    /\ todo \subseteq DOMAIN records

\* ------------------------------------------------------------------ claims
Batches == {"create", "update", "delete"}

OpOf(batch) ==
    CASE batch = "create" -> "post"
      [] batch = "update" -> "patch"
      [] batch = "delete" -> "delete"

Declined(batch) == answers[batch] \notin {"unasked", "y"}

CallsOf(op) == {i \in 1..Len(calls) : calls[i].op = op}

Orphans == DOMAIN _current \ DOMAIN _desired

Shared == DOMAIN _desired \cap DOMAIN _current

\* C1: a hostname in current but not in desired whose record content does not
\* end with ".cfargotunnel.com" is never in the delete set, and no delete call
\* is ever addressed to its record.
C1_DeletionScoping ==
    \A h \in Orphans :
        ~EndsWithTunnelSuffix(_current[h].content) =>
            /\ h \notin DOMAIN DeleteSet(_desired, _current)
            /\ \A i \in CallsOf("delete") :
                  ~(calls[i].zone_id = _current[h].zone_id /\ calls[i].id = _current[h].id)

\* C2: with the prompt enabled, a batch whose answer is not "y" issues no
\* provider mutation call; for create, update and delete alike.
C2_ConfirmationGate ==
    \A b \in Batches : (prompt /\ Declined(b)) => CallsOf(OpOf(b)) = {}

\* C3: every hostname in current but not in desired whose record content ends
\* with ".cfargotunnel.com" is in the delete set.
C3_DeleteEligible ==
    \A h \in Orphans :
        EndsWithTunnelSuffix(_current[h].content) =>
            h \in DOMAIN DeleteSet(_desired, _current)

\* C4: when process() has run to its end with no batch declined and no call
\* failed, the recomputed current map holds, for every desired hostname, a
\* record equal to the desired one in every field but id.
C4_Convergence ==
    (pc = "done" /\ \A b \in Batches : ~Declined(b)) =>
        LET again == CurrentOf(cf_zones, cf_records)
        IN \A h \in DOMAIN _desired :
              /\ h \in DOMAIN again
              /\ [again[h] EXCEPT !.id = None] = _desired[h]

C4_Witness ==
    /\ pc = "done"
    /\ prompt
    /\ \A b \in Batches : ~Declined(b)
    /\ CallsOf("post") # {}
    /\ CallsOf("patch") # {}

\* C5 as stated: a hostname in both maps is in the update set exactly when the
\* two records differ in one of type, content, proxiable, proxied, ttl.
C5_UpdateMembershipDataOnly ==
    \A h \in Shared :
        h \in DOMAIN UpdateSet(_desired, _current)
            <=> Data(_desired[h]) # Data(_current[h])

\* C5 as amended: a hostname in both maps is in the update set exactly when
\* the two records differ in one of zone_id, type, content, proxiable,
\* proxied, ttl; id does not decide membership.
C5_UpdateMembership ==
    \A h \in Shared :
        h \in DOMAIN UpdateSet(_desired, _current)
            <=> \/ Data(_desired[h]) # Data(_current[h])
                \/ _desired[h].zone_id # _current[h].zone_id

C5_Witness ==
    \E h \in Shared :
        /\ Data(_desired[h]) = Data(_current[h])
        /\ _desired[h].zone_id # _current[h].zone_id
        /\ _desired[h].id # _current[h].id
        /\ pc = "update_apply"
        /\ h \in DOMAIN records

\* C6: a hostname whose desired and current records agree on every field but
\* id is not in the update set, and no patch call is issued for it.
C6_UpdateMinimality ==
    \A h \in Shared :
        [_current[h] EXCEPT !.id = None] = _desired[h] =>
            /\ h \notin DOMAIN UpdateSet(_desired, _current)
            /\ \A i \in CallsOf("patch") : calls[i].name # h

C6_Witness ==
    /\ pc = "done"
    /\ CallsOf("patch") # {}
    /\ \E h \in Shared : [_current[h] EXCEPT !.id = None] = _desired[h]

\* Some ingress rule of an active tunnel names a hostname whose apex domain is
\* the name of no listed zone.
UnknownApex ==
    \E i \in 1..Len(cf_tunnels) :
        \E j \in 1..Len(cf_config[cf_tunnels[i].id]) :
            LET elem == cf_config[cf_tunnels[i].id][j]
            IN /\ elem.has_hostname
               /\ \A k \in 1..Len(cf_zones) : cf_zones[k].name # ApexOf(elem.hostname)

\* C7: when a hostname-bearing ingress rule has an apex domain that names no
\* zone, desired() ends in the zone-not-found error (or a listing call fails
\* before it) and the run issues no create, patch or delete call.
C7_ZoneNotFoundAborts ==
    UnknownApex =>
        /\ pc \in {"desired", "zone_not_found", "call_failed"}
        /\ calls = <<>>
        /\ _desired = EmptyDict

C7_Witness ==
    /\ pc = "zone_not_found"
    /\ zid_cache # EmptyDict
    /\ \E z \in ZoneIds : cf_records[z] # <<>>

Terminal == {"done", "zone_not_found", "call_failed"}

PcRank(p) ==
    CASE p = "desired" -> 0
      [] p = "current" -> 1
      [] p = "create" -> 2
      [] p = "create_apply" -> 3
      [] p = "update" -> 4
      [] p = "update_apply" -> 5
      [] p = "delete" -> 6
      [] p = "delete_apply" -> 7
      [] p \in Terminal -> 8

\* process() stands in create(), update() or delete().
AfterReads == {"create", "create_apply", "update", "update_apply", "delete", "delete_apply"}

\* Every step moves process() forward: to a later statement, or one key
\* further in the running loop.
Progress ==
    \/ PcRank(pc') > PcRank(pc)
    \/ pc' = pc /\ todo' \subseteq todo /\ todo' # todo

\* C8: declining the create batch passes control to update() and declining
\* the update batch passes control to delete(); a run that got past update()
\* or delete() with a non-empty batch has asked for it; and from create() on
\* the run never stops or loops before the end of delete() unless a call
\* failed.
C8_DeclineContinues ==
    /\ [][(pc = "create" /\ answers'.create \notin {"unasked", "y"}) => pc' = "update"]_vars
    /\ [][(pc = "update" /\ answers'.update \notin {"unasked", "y"}) => pc' = "delete"]_vars
    /\ []((prompt /\ pc \in {"delete", "delete_apply", "done"}
                  /\ DOMAIN UpdateSet(_desired, _current) # {})
             => answers.update # "unasked")
    /\ []((prompt /\ pc = "done" /\ DOMAIN DeleteSet(_desired, _current) # {})
             => answers.delete # "unasked")
    /\ [](pc \in AfterReads => ENABLED Next)
    /\ [][Progress]_vars

C8_Witness ==
    /\ pc = "done"
    /\ Declined("create")
    /\ Declined("update")
    /\ answers.delete # "unasked"

Rank(op) ==
    CASE op = "post" -> 1
      [] op = "patch" -> 2
      [] op = "delete" -> 3

\* C9: in the order of issue, every create call comes before every patch call
\* and every patch call before every delete call.
C9_ApplyOrder ==
    \A i, j \in 1..Len(calls) : i < j => Rank(calls[i].op) <= Rank(calls[j].op)

C9_Witness ==
    /\ CallsOf("post") # {}
    /\ CallsOf("patch") # {}
    /\ CallsOf("delete") # {}

\* The provider holds what a successful create or patch call wrote.
Applied(c) ==
    \E k \in 1..Len(cf_records[c.zone_id]) :
        LET r == cf_records[c.zone_id][k]
        IN /\ r.name = c.name
           /\ Data(r) = c.data
           /\ c.op = "patch" => r.id = c.id

\* C10: a failed mutation call is the last call of the run (nothing further
\* is issued in its batch and it is not repeated), and what every earlier
\* successful create or patch call wrote is still in the provider state.
C10_NonTransactional ==
    /\ \A i \in 1..Len(calls) : ~calls[i].ok => (i = Len(calls) /\ pc = "call_failed")
    /\ \A i \in 1..Len(calls) :
          (calls[i].ok /\ calls[i].op \in {"post", "patch"}) => Applied(calls[i])

C10_Witness ==
    /\ pc = "call_failed"
    /\ Len(calls) >= 2
    /\ ~calls[Len(calls)].ok
    /\ calls[Len(calls) - 1].ok
    /\ calls[Len(calls) - 1].op = calls[Len(calls)].op

\* C11: the hostname sets of the create, update and delete batches are
\* pairwise disjoint, and no hostname is named by two mutation calls of a run.
C11_DisjointBatches ==
    LET c == DOMAIN CreateSet(_desired, _current)
        u == DOMAIN UpdateSet(_desired, _current)
        d == DOMAIN DeleteSet(_desired, _current)
    IN /\ c \cap u = {}
       /\ c \cap d = {}
       /\ u \cap d = {}
       /\ \A i, j \in 1..Len(calls) : i < j => calls[i].name # calls[j].name

C11_Witness ==
    /\ pc = "done"
    /\ DOMAIN CreateSet(_desired, _current) # {}
    /\ DOMAIN UpdateSet(_desired, _current) # {}
    /\ DOMAIN DeleteSet(_desired, _current) # {}
    /\ Len(calls) = 3

\* C12: with the provider state fixed and nothing applied, calling desired()
\* and current() a second time (the memos now filled) and computing the three
\* batches again gives the same create, update and delete sets as the first
\* time.
C12_DiffIdempotent ==
    pc = "create" =>
        LET st == DesiredRun(tunnels_cache, zones_cache, zid_cache,
                             cf_tunnels, cf_zones, cf_config)
            again == CurrentOf(zones_cache[1], cf_records)
        IN /\ st.ok
           /\ CreateSet(st.desired, again) = CreateSet(_desired, _current)
           /\ UpdateSet(st.desired, again) = UpdateSet(_desired, _current)
           /\ DeleteSet(st.desired, again) = DeleteSet(_desired, _current)

C12_Witness ==
    /\ pc = "create"
    /\ zid_cache # EmptyDict
    /\ DOMAIN CreateSet(_desired, _current) # {}
    /\ DOMAIN UpdateSet(_desired, _current) # {}
    /\ DOMAIN DeleteSet(_desired, _current) # {}

ReadsOf(op) == {i \in 1..Len(reads) : reads[i].op = op}

\* C13: the zone listing and the tunnel listing are each fetched at most once
\* in a run and the body of zone_name_to_id runs at most once per name; a
\* filled memo never changes, and every zone a desired record lies in is a
\* zone whose records current() has listed, also when the provider's zones and
\* tunnels change between desired() and current().
C13_SingleSnapshot ==
    /\ [](Cardinality(ReadsOf("zones")) <= 1)
    /\ [](Cardinality(ReadsOf("tunnels")) <= 1)
    /\ [](\A i, j \in ReadsOf("zone_name_to_id") : i # j => reads[i].arg # reads[j].arg)
    /\ [][zones_cache # <<>> => zones_cache' = zones_cache]_vars
    /\ [][tunnels_cache # <<>> => tunnels_cache' = tunnels_cache]_vars
    /\ [][\A n \in DOMAIN zid_cache :
             n \in DOMAIN zid_cache' /\ zid_cache'[n] = zid_cache[n]]_vars
    /\ [](pc \in AfterReads =>
             \A h \in DOMAIN _desired :
                \E i \in ReadsOf("dns_records") : reads[i].arg = <<_desired[h].zone_id>>)

C13_Witness ==
    /\ pc = "create"
    /\ cf_zones = ZoneListLater
    /\ zones_cache = <<ZoneList>>
    /\ tunnels_cache = <<TunnelList>>
    /\ hB \in DOMAIN _desired
    /\ hB \in DOMAIN _current
    /\ _current[hB].zone_id = "Z2"

\* desired() of the first run has returned.
DesiredDone ==
    \/ pc \in AfterReads \cup {"current", "done"}
    \/ pc = "call_failed" /\ ReadsOf("dns_records") # {}

\* The (tunnel index, rule index) pairs of the hostname-bearing ingress rules
\* of the active tunnels.
HostRules ==
    {p \in (1..Len(cf_tunnels)) \X (1..MaxRules + 1) :
        /\ p[2] <= Len(cf_config[cf_tunnels[p[1]].id])
        /\ cf_config[cf_tunnels[p[1]].id][p[2]].has_hostname}

HostOf(p) == cf_config[cf_tunnels[p[1]].id][p[2]].hostname

\* C14: the keys of the desired map are exactly the hostnames of the
\* hostname-bearing ingress rules of the active tunnels; each value has no id,
\* type CNAME, the content "<id>.cfargotunnel.com" of a tunnel with a rule for
\* the hostname, proxiable and proxied true, ttl 1, and the id of the zone
\* named like the hostname without its first label.
C14_DesiredBuilder ==
    DesiredDone =>
        /\ DOMAIN _desired = {HostOf(p) : p \in HostRules}
        /\ \A h \in DOMAIN _desired :
              LET r == _desired[h]
              IN /\ r.id = None
                 /\ r.type = "CNAME"
                 /\ \E p \in HostRules :
                       /\ HostOf(p) = h
                       /\ r.content = <<cf_tunnels[p[1]].id, "cfargotunnel", "com">>
                 /\ r.proxiable = TRUE
                 /\ r.proxied = TRUE
                 /\ r.ttl = 1
                 /\ \E k \in 1..Len(cf_zones) :
                       /\ cf_zones[k].name = SubSeq(h, 2, Len(h))
                       /\ cf_zones[k].id = r.zone_id

C14_Witness ==
    /\ pc = "current"
    /\ \E t \in TunnelIds : \E j \in 1..Len(cf_config[t]) : cf_config[t][j] = NoHostRule
    /\ hB \in DOMAIN _desired

\* Pair p comes no later than pair q in the order of two nested loops.
NotAfter(p, q) == p[1] < q[1] \/ (p[1] = q[1] /\ p[2] <= q[2])

\* The (zone index, record index) pairs of the records the provider holds in
\* the listed zones.
ListedRecords ==
    {p \in (1..Len(cf_zones)) \X (1..MaxRecords + MaxRules + 1) :
        p[2] <= Len(cf_records[cf_zones[p[1]].id])}

RecordAt(p) == cf_records[cf_zones[p[1]].id][p[2]]

\* C15: among several ingress rules naming one hostname the desired map holds
\* the record of the rule that comes last in tunnel listing order, then rule
\* order; among several provider records of one name the current map holds
\* the one that comes last in zone listing order, then record order.
C15_LastWins ==
    /\ DesiredDone =>
          \A h \in DOMAIN _desired :
             \E p \in HostRules :
                /\ HostOf(p) = h
                /\ \A q \in HostRules : HostOf(q) = h => NotAfter(q, p)
                /\ _desired[h].content = <<cf_tunnels[p[1]].id>> \o TunnelSuffix
    /\ pc = "create" =>
          \A h \in DOMAIN _current :
             \E p \in ListedRecords :
                /\ RecordAt(p).name = h
                /\ \A q \in ListedRecords : RecordAt(q).name = h => NotAfter(q, p)
                /\ _current[h].id = RecordAt(p).id
                /\ _current[h].zone_id = RecordAt(p).zone_id
                /\ Data(_current[h]) = Data(RecordAt(p))

C15_Witness ==
    /\ pc = "create"
    /\ \E p, q \in HostRules : p[1] # q[1] /\ HostOf(p) = HostOf(q)
    /\ \E p, q \in ListedRecords :
          p # q /\ RecordAt(p).name = RecordAt(q).name /\ Data(RecordAt(p)) # Data(RecordAt(q))

BatchOf(batch) ==
    CASE batch = "create" -> CreateSet(_desired, _current)
      [] batch = "update" -> UpdateSet(_desired, _current)
      [] batch = "delete" -> DeleteSet(_desired, _current)

\* C16: a step whose batch is empty calls input() for no confirmation and
\* issues no provider call, with the prompt enabled or not.
C16_EmptyBatchNoOp ==
    \A b \in Batches :
        DOMAIN BatchOf(b) = {} =>
            /\ answers[b] = "unasked"
            /\ CallsOf(OpOf(b)) = {}

C16_Witness ==
    /\ pc = "done"
    /\ prompt
    /\ DOMAIN BatchOf("create") = {}
    /\ DOMAIN BatchOf("delete") = {}
    /\ answers.update = "y"
    /\ CallsOf("patch") # {}

\* C17: every patch call and every delete call is addressed by the zone_id
\* and the id of current[h], h the hostname updated or deleted.
C17_MutationAddressing ==
    \A i \in CallsOf("patch") \cup CallsOf("delete") :
        /\ calls[i].name \in DOMAIN _current
        /\ calls[i].zone_id = _current[calls[i].name].zone_id
        /\ calls[i].id = _current[calls[i].name].id

\* C18: a listing call is made only while no mutation call has been issued;
\* from create() on the desired and current maps do not change, and the batch
\* an update or delete loop works on is the one computed from them, whatever
\* became of the earlier batches.
C18_ReadsPrecedeWrites ==
    /\ [][reads' # reads => (calls = <<>> /\ calls' = <<>>)]_vars
    /\ [][(pc \in AfterReads) => UNCHANGED <<_desired, _current>>]_vars
    /\ [](pc = "update_apply" => records = UpdateSet(_desired, _current))
    /\ [](pc = "delete_apply" => records = DeleteSet(_desired, _current))
    /\ [](calls # <<>> =>
             /\ ReadsOf("tunnels") # {}
             /\ ReadsOf("zones") # {}
             /\ ReadsOf("dns_records") # {})

C18_Witness ==
    /\ pc = "delete_apply"
    /\ CallsOf("post") # {}
    /\ CallsOf("patch") # {}
    /\ reads # <<>>

\* The provider holds a record named h, in whichever zone.
HasRecord(h) ==
    \E z \in ZoneIds : \E k \in 1..Len(cf_records[z]) : cf_records[z][k].name = h

\* The calls of the first run: a failed call ends a run, so they are the
\* calls up to the first failed one.
FirstRunCalls ==
    {i \in 1..Len(calls) : \A j \in 1..(i - 1) : calls[j].ok}

\* C19: in a run started after a failed post aborted the create batch of the
\* previous run, the create batch is exactly the desired hostnames the
\* provider holds no record for, and over the two runs no hostname has two
\* successful posts.
C19_SafeRerun ==
    /\ (run = "second" /\ pc = "create") =>
          DOMAIN CreateSet(_desired, _current) =
             {h \in DOMAIN _desired : ~HasRecord(h)}
    /\ (run = "second" /\ pc = "create_apply") =>
          \A h \in todo : ~HasRecord(h)
    /\ \A i, j \in CallsOf("post") :
          (calls[i].ok /\ calls[j].ok /\ calls[i].name = calls[j].name) => i = j

C19_Witness ==
    /\ run = "second"
    /\ pc = "update"
    /\ \E i \in CallsOf("post") \cap FirstRunCalls : calls[i].ok
    /\ \E i \in CallsOf("post") \ FirstRunCalls : calls[i].ok

====
